---------------------------- MODULE Spec2Model ----------------------------
(***************************************************************************)
(* Visitor tracking endpoint GET /track.                                   *)
(*                                                                         *)
(* Two builds of the endpoint exist in the repository: src/index.js (bot   *)
(* filter, rate limiter, api-key check) and src/unnamed/part_000 (the      *)
(* earlier handler without them).  Spec is the build of index.js,          *)
(* LegacySpec the build of part_000.  HistorySpec is Spec with an observer *)
(* that counts requests and responses, FairSpec is HistorySpec with every  *)
(* awaited call answered in the end, ClassifySpec is isBot on its own.     *)
(*                                                                         *)
(* A request is cut at its awaits: each action below is one synchronous    *)
(* block of the handler, or the database / enrichment service answering    *)
(* the call the request is waiting for together with the continuation      *)
(* that the answer resumes.  Strings are sequences of one-character        *)
(* strings so that the regular expressions and .length of isBot can be     *)
(* computed.  The database and the network do not fail on their own: the   *)
(* only store error is the duplicate-key error of the unique index, the    *)
(* only enrichment error is a failed axios.get.                            *)
(***************************************************************************)
EXTENDS Integers, Sequences, FiniteSets, Bags, TLC

(***************************************************************************)
(* Bounds of the model.                                                    *)
(***************************************************************************)
\* requests that arrive at the build of index.js, and at that of part_000
MaxReq == 3

LegacyMaxReq == 4

MaxInFlight == 2

MaxTicks == 2

(***************************************************************************)
(* Strings.                                                                *)
(***************************************************************************)
botPatterns ==
    << <<"g", "o", "o", "g", "l", "e", "b", "o", "t">>,
       <<"b", "i", "n", "g", "b", "o", "t">>,
       <<"s", "l", "u", "r", "p">>,
       <<"d", "u", "c", "k", "d", "u", "c", "k", "b", "o", "t">>,
       <<"b", "a", "i", "d", "u", "s", "p", "i", "d", "e", "r">>,
       <<"y", "a", "n", "d", "e", "x", "b", "o", "t">>,
       <<"f", "a", "c", "e", "b", "o", "o", "k", "e", "x", "t", "e", "r", "n", "a", "l", "h", "i", "t">>,
       <<"t", "w", "i", "t", "t", "e", "r", "b", "o", "t">>,
       <<"l", "i", "n", "k", "e", "d", "i", "n", "b", "o", "t">>,
       <<"a", "h", "r", "e", "f", "s", "b", "o", "t">>,
       <<"s", "e", "m", "r", "u", "s", "h", "b", "o", "t">>,
       <<"m", "j", "1", "2", "b", "o", "t">>,
       <<"d", "o", "t", "b", "o", "t">>,
       <<"s", "c", "r", "e", "a", "m", "i", "n", "g", " ", "f", "r", "o", "g">>,
       <<"s", "i", "t", "e", "b", "u", "l", "b">>,
       <<"s", "e", "o", "s", "i", "t", "e", "m", "a", "r", "k", "u", "p">>,
       <<"s", "p", "y", "f", "u">>,
       <<"b", "o", "t">>,
       <<"c", "r", "a", "w", "l", "e", "r">>,
       <<"s", "p", "i", "d", "e", "r">>,
       <<"s", "c", "r", "a", "p", "e", "r">>,
       <<"c", "u", "r", "l">>,
       <<"w", "g", "e", "t">>,
       <<"p", "y", "t", "h", "o", "n", "-", "r", "e", "q", "u", "e", "s", "t", "s">>,
       <<"n", "o", "d", "e", "-", "f", "e", "t", "c", "h">>,
       <<"a", "x", "i", "o", "s">>,
       <<"p", "o", "s", "t", "m", "a", "n">>,
       <<"p", "i", "n", "g", "d", "o", "m">>,
       <<"u", "p", "t", "i", "m", "e", "r", "o", "b", "o", "t">>,
       <<"n", "e", "w", "r", "e", "l", "i", "c">>,
       <<"m", "o", "n", "i", "t", "i", "s">>,
       <<"s", "i", "t", "e", "2", "4", "x", "7">>,
       <<"n", "e", "s", "s", "u", "s">>,
       <<"n", "m", "a", "p">>,
       <<"m", "a", "s", "s", "c", "a", "n">>,
       <<"z", "a", "p">>,
       <<"n", "i", "k", "t", "o">>,
       <<"h", "e", "a", "d", "l", "e", "s", "s", "c", "h", "r", "o", "m", "e">>,
       <<"p", "h", "a", "n", "t", "o", "m", "j", "s">>,
       <<"s", "e", "l", "e", "n", "i", "u", "m">>,
       <<"w", "e", "b", "d", "r", "i", "v", "e", "r">>,
       <<"p", "r", "e", "v", "i", "e", "w">>,
       <<"v", "a", "l", "i", "d", "a", "t", "o", "r">>,
       <<"s", "c", "a", "n", "n", "e", "r">>,
       <<"m", "o", "n", "i", "t", "o", "r">> >>

suspiciousIPRanges ==
    << <<"6", "4", ".", "2", "3", "3", ".">>,
       <<"6", "6", ".", "2", "4", "9", ".">>,
       <<"2", "0", "7", ".", "4", "6", ".">>,
       <<"4", "0", ".", "7", "7", ".">>,
       <<"5", "4", ".">>,
       <<"3", ".">>,
       <<"1", "8", ".">>,
       <<"1", "0", "4", ".", "1", "5", "4", ".">>,
       <<"3", "5", ".">>,
       <<"1", "3", ".">>,
       <<"2", "0", ".">>,
       <<"5", "2", ".">> >>

UpperToLower ==
    [A |-> "a", B |-> "b", C |-> "c", D |-> "d", E |-> "e", F |-> "f", G |-> "g", H |-> "h", I |-> "i", J |-> "j", K |-> "k", L |-> "l", M |-> "m", N |-> "n", O |-> "o", P |-> "p", Q |-> "q", R |-> "r", S |-> "s", T |-> "t", U |-> "u", V |-> "v", W |-> "w", X |-> "x", Y |-> "y", Z |-> "z"]

UaMacintosh == <<"M", "o", "z", "i", "l", "l", "a", "/", "5", ".", "0", " ", "(", "M", "a", "c", "i", "n", "t", "o", "s", "h", ")">>

UaLinux == <<"M", "o", "z", "i", "l", "l", "a", "/", "5", ".", "0", " ", "(", "X", "1", "1", ";", " ", "L", "i", "n", "u", "x", ")">>

UaGooglebot == <<"G", "o", "o", "g", "l", "e", "b", "o", "t", "/", "2", ".", "1">>

IpLoopback4 == <<"1", "2", "7", ".", "0", ".", "0", ".", "1">>

IpLoopback6 == <<":", ":", "1">>

IpDefault == <<"8", ".", "8", ".", "8", ".", "8">>

IpGoogle == <<"6", "6", ".", "2", "4", "9", ".", "6", "6", ".", "1">>

RawIps == {IpLoopback4, IpLoopback6, IpDefault, IpGoogle}

UserAgents == {<<>>, UaMacintosh, UaLinux, UaGooglebot}

toLowerCase(c) == IF c \in DOMAIN UpperToLower THEN UpperToLower[c] ELSE c

Lower(s) == [i \in 1..Len(s) |-> toLowerCase(s[i])]

\* /pattern/i.test(s): the pattern occurs somewhere in s, ignoring case
RegexTestI(pattern, s) ==
    LET lowered == Lower(s)
    IN  \E i \in 1..(Len(s) - Len(pattern) + 1) :
            SubSeq(lowered, i, i + Len(pattern) - 1) = pattern

\* /^prefix/.test(s): s starts with the prefix
RegexTestPrefix(prefix, s) ==
    /\ Len(s) >= Len(prefix)
    /\ SubSeq(s, 1, Len(prefix)) = prefix

(***************************************************************************)
(* Bot detection, index.js 122-177.                                        *)
(***************************************************************************)
\* isBot with the limits of the length rule off by one
isBotLengthOffByOne(userAgent, ip) ==
    IF userAgent = <<>> THEN TRUE
    ELSE IF \E k \in DOMAIN botPatterns : RegexTestI(botPatterns[k], userAgent) THEN TRUE
    ELSE IF Len(userAgent) <= 10 \/ Len(userAgent) >= 500 THEN TRUE
    ELSE IF \E k \in DOMAIN suspiciousIPRanges : RegexTestPrefix(suspiciousIPRanges[k], ip) THEN TRUE
    ELSE FALSE

\* isBot without the loop over suspiciousIPRanges
isBotWithoutIpRanges(userAgent, ip) ==
    IF userAgent = <<>> THEN TRUE
    ELSE IF \E k \in DOMAIN botPatterns : RegexTestI(botPatterns[k], userAgent) THEN TRUE
    ELSE IF Len(userAgent) < 10 \/ Len(userAgent) > 500 THEN TRUE
    ELSE FALSE

isBot(userAgent, ip) ==
    IF userAgent = <<>> THEN TRUE
    ELSE IF \E k \in DOMAIN botPatterns : RegexTestI(botPatterns[k], userAgent) THEN TRUE
    ELSE IF Len(userAgent) < 10 \/ Len(userAgent) > 500 THEN TRUE
    ELSE IF \E k \in DOMAIN suspiciousIPRanges : RegexTestPrefix(suspiciousIPRanges[k], ip) THEN TRUE
    ELSE FALSE

\* const ip = req.ip === '::1' || req.ip === '127.0.0.1' ? '8.8.8.8' : req.ip
NormalizeIp(rawIp) ==
    IF rawIp = IpLoopback6 \/ rawIp = IpLoopback4 THEN IpDefault ELSE rawIp

Ips == {NormalizeIp(rawIp) : rawIp \in RawIps}

\* IsBotTable with the bot check skipped
NoBotFilter == [userAgent \in UserAgents |-> [ip \in Ips |-> FALSE]]

\* isBot for the inputs of the model, evaluated once
IsBotTable == [userAgent \in UserAgents |-> [ip \in Ips |-> isBot(userAgent, ip)]]

(***************************************************************************)
(* isBot on its own: the inputs it is tried on.                            *)
(***************************************************************************)
\* how many characters surround a pattern placed inside a user agent
PadLen == 6

\* a string of n characters that occur in no pattern's first place
Filler(n) == [i \in 1..n |-> "x"]

toUpperCase(c) ==
    IF \E u \in DOMAIN UpperToLower : UpperToLower[u] = c
    THEN CHOOSE u \in DOMAIN UpperToLower : UpperToLower[u] = c
    ELSE c

Upper(s) == [i \in 1..Len(s) |-> toUpperCase(s[i])]

\* user agents around the two limits of userAgent.length, without a pattern
LengthUserAgents == {Filler(n) : n \in {0, 1, 9, 10, 11, 500, 501}}

\* user agents with a pattern: bare, inside a longer string in lower and in
\* upper case, and (two of them) in front of a string of 500 characters
PatternUserAgents ==
    UNION {{botPatterns[k],
            Filler(PadLen) \o botPatterns[k] \o Filler(PadLen),
            Filler(PadLen) \o Upper(botPatterns[k]) \o Filler(PadLen)} : k \in DOMAIN botPatterns}
    \cup {botPatterns[k] \o Filler(500) : k \in {1, 18}}

ClassifyUserAgents == UserAgents \cup LengthUserAgents \cup PatternUserAgents

IpHome == <<"2", "0", "3", ".", "0", ".", "1", "1", "3", ".", "7">>

\* an address inside each listed range, and addresses that only look alike
ClassifyIps ==
    {suspiciousIPRanges[k] \o
        (IF Len(suspiciousIPRanges[k]) > 4 THEN <<"7", ".", "7">> ELSE <<"7", ".", "7", ".", "7">>) :
        k \in DOMAIN suspiciousIPRanges}
    \cup {IpDefault, IpHome, <<"3", "0">> \o <<".", "7", ".", "7", ".", "7">>,
          <<"1">> \o IpGoogle}

(***************************************************************************)
(* Program constants and documents.                                        *)
(***************************************************************************)
minTimeBetweenRequests == 5000

\* the values the enrichment service may answer with (response.data);
\* a nested group is a sequence of at most one object: <<>> is "absent"
IpDataResponses ==
    { [city |-> "Mountain View", asn |-> << [name |-> "Google LLC"] >>],
      [city |-> "Kathmandu", asn |-> << >>] }

NoIpData == [city |-> "undefined", asn |-> << >>]

\* findOne's null, and the value of a document variable that is not set
NoDoc == [_id |-> 0]

\* ipData.asn || {}
OrEmptyObject(group) == IF group = << >> THEN [name |-> "undefined"] ELSE group[1]

\* the nested schema of index.js: { type: String, default: null }
NestedDefaults(obj) == [name |-> IF obj.name = "undefined" THEN "null" ELSE obj.name]

\* NewVisitor with the city key misspelt, so that the field stays undefined
NewVisitorNoCity(id, ip, userAgent, ipData, firstNow, lastNow) ==
    [_id |-> id, ip |-> ip, count |-> 1, user_agent |-> userAgent,
     city |-> "undefined", asn |-> NestedDefaults(OrEmptyObject(ipData.asn)),
     first_visit |-> firstNow, last_visit |-> lastNow]

\* NewVisitor with last_visit declared before first_visit in the schema
NewVisitorDatesSwapped(id, ip, userAgent, ipData, firstNow, lastNow) ==
    [_id |-> id, ip |-> ip, count |-> 1, user_agent |-> userAgent,
     city |-> ipData.city, asn |-> NestedDefaults(OrEmptyObject(ipData.asn)),
     first_visit |-> lastNow, last_visit |-> firstNow]

\* NewVisitor with the schema default of count at 0
NewVisitorCountZero(id, ip, userAgent, ipData, firstNow, lastNow) ==
    [_id |-> id, ip |-> ip, count |-> 0, user_agent |-> userAgent,
     city |-> ipData.city, asn |-> NestedDefaults(OrEmptyObject(ipData.asn)),
     first_visit |-> firstNow, last_visit |-> lastNow]

\* new Visitor({...}) of index.js; the schema fills count and the two dates,
\* each date by its own evaluation of Date.now (firstNow, then lastNow)
NewVisitor(id, ip, userAgent, ipData, firstNow, lastNow) ==
    [_id |-> id, ip |-> ip, count |-> 1, user_agent |-> userAgent,
     city |-> ipData.city, asn |-> NestedDefaults(OrEmptyObject(ipData.asn)),
     first_visit |-> firstNow, last_visit |-> lastNow]

\* new Visitor({...}) of part_000: no user_agent, no nested defaults
LegacyNewVisitor(id, ip, ipData, firstNow, lastNow) ==
    [_id |-> id, ip |-> ip, count |-> 1,
     city |-> ipData.city,
     asn |-> IF ipData.asn = << >> THEN [name |-> "undefined"] ELSE ipData.asn[1],
     first_visit |-> firstNow, last_visit |-> lastNow]

\* DuplicateKey without the unique index
NoUniqueIndex(docs, doc) == FALSE

\* ip: { unique: true }: the index refuses a second document with the same ip
DuplicateKey(docs, doc) == \E d \in docs : d.ip = doc.ip

\* Visitor.findOne({ ip: ip }): a matching document, or null
FindOne(docs, ip) ==
    IF \E d \in docs : d.ip = ip THEN {d \in docs : d.ip = ip} ELSE {NoDoc}

\* UpdateOne that also writes first_visit, as a re-applied schema default would
UpdateOneResetsFirstVisit(docs, doc, modified) ==
    { IF d._id = doc._id
        THEN [d EXCEPT !.count = IF "count" \in modified THEN doc.count ELSE @,
                       !.last_visit = IF "last_visit" \in modified THEN doc.last_visit ELSE @,
                       !.user_agent = IF "user_agent" \in modified THEN doc.user_agent ELSE @,
                       !.first_visit = doc.last_visit]
        ELSE d : d \in docs }

\* UpdateOne with the count sent as an increment instead of a value
UpdateOneIncrementsByCount(docs, doc, modified) ==
    { IF d._id = doc._id
        THEN [d EXCEPT !.count = IF "count" \in modified THEN @ + doc.count ELSE @,
                       !.last_visit = IF "last_visit" \in modified THEN doc.last_visit ELSE @,
                       !.user_agent = IF "user_agent" \in modified THEN doc.user_agent ELSE @]
        ELSE d : d \in docs }

\* visitor.save() of a loaded document: $set of the modified paths on the
\* stored document with the same _id
UpdateOne(docs, doc, modified) ==
    { IF d._id = doc._id
        THEN [d EXCEPT !.count = IF "count" \in modified THEN doc.count ELSE @,
                       !.last_visit = IF "last_visit" \in modified THEN doc.last_visit ELSE @,
                       !.user_agent = IF "user_agent" \in modified THEN doc.user_agent ELSE @]
        ELSE d : d \in docs }

\* the same for the schema of part_000, which has no user_agent
LegacyUpdateOne(docs, doc, modified) ==
    { IF d._id = doc._id
        THEN [d EXCEPT !.count = IF "count" \in modified THEN doc.count ELSE @,
                       !.last_visit = IF "last_visit" \in modified THEN doc.last_visit ELSE @]
        ELSE d : d \in docs }

\* RateLimitExceeded with half the interval
RateLimitHalfInterval(nowDate, lastVisit) ==
    nowDate - lastVisit < minTimeBetweenRequests \div 2

\* RateLimitExceeded with <= for <
RateLimitInclusive(nowDate, lastVisit) == nowDate - lastVisit <= minTimeBetweenRequests

\* timeSinceLastVisit < minTimeBetweenRequests
RateLimitExceeded(nowDate, lastVisit) == nowDate - lastVisit < minTimeBetweenRequests

(***************************************************************************)
(* State.                                                                  *)
(***************************************************************************)
VARIABLES
    IPDATA_API_KEY,   \* TRUE iff process.env.IPDATA_API_KEY is set
    clock,            \* the latest value the system clock has returned, in ms
    store,            \* the visitors collection: a set of documents
    started,          \* how many requests have arrived so far
    nextId,           \* the _id the next constructed document gets
    req,              \* the requests in flight: a bag of their local states
    res,              \* the latest response sent
    hist              \* what an observer of the endpoint has counted

vars == <<IPDATA_API_KEY, clock, store, started, nextId, req, res, hist>>

\* the local state of a request that has just arrived
NewReq ==
    [pc |-> "new", ip |-> << >>, userAgent |-> << >>,
     found |-> NoDoc, visitor |-> NoDoc, modified |-> {}, newVisitor |-> NoDoc,
     ipData |-> NoIpData, looked |-> "none", calledAxios |-> FALSE, saved |-> FALSE]

NoRes ==
    [outcome |-> "none", status |-> 0, success |-> FALSE, message |-> "",
     error |-> "none", ip |-> << >>, userAgent |-> << >>,
     looked |-> "none", calledAxios |-> FALSE, saved |-> FALSE]

\* res.status(status).json({ success, message }) by request q; of the
\* request the response keeps what it did, and its user agent if it did nothing
Respond(q, outcome, status, success, message, error) ==
    [outcome |-> outcome, status |-> status, success |-> success,
     message |-> message, error |-> error, ip |-> q.ip,
     userAgent |-> IF q.looked = "none" THEN q.userAgent ELSE << >>,
     looked |-> q.looked, calledAxios |-> q.calledAxios, saved |-> q.saved]

InFlight == BagToSet(req)

Replace(bag, old, new) == (bag (-) SetToBag({old})) (+) SetToBag({new})

Remove(bag, old) == bag (-) SetToBag({old})

\* new Date() / Date.now(): the clock never goes back; between two reads it
\* has stood still or advanced by a multiple of half the rate-limit interval
\* (the clock is only looked at when the program reads it, so the time that
\* passes elsewhere shows in the next read)
ClockStep == minTimeBetweenRequests \div 2

ClockReads(last) ==
    {t \in {k * ClockStep : k \in 0..MaxTicks} : t >= last}

\* a second read in the same synchronous block: the clock has stood still or
\* advanced by one step, which stands for any advance in between
ClockReadsAgain(last) ==
    {t \in ClockReads(last) : t <= last + ClockStep}

\* the observer's counts.  The endpoint keeps none of them: they are what a
\* client that sees every request and every response could write down.  Only
\* HistorySpec counts; in the other specifications the observer is off.
HistOff ==
    [on |-> FALSE, responses |-> 0, tracked |-> [ip \in Ips |-> 0], overlap |-> FALSE,
     ip |-> << >>, base |-> 0, accepted |-> 0, times |-> {}]

HistOn == [HistOff EXCEPT !.on = TRUE]

Observed(h) == IF hist.on THEN h ELSE hist

\* the visitCount stored for an address, 0 if it has no record
StoredCount(docs, ip) ==
    IF \E d \in docs : d.ip = ip THEN (CHOOSE d \in docs : d.ip = ip).count ELSE 0

\* a response was sent
SawResponse(h) == [h EXCEPT !.responses = @ + 1]

\* a request from address ip was answered Tracked
SawTracked(h, ip) == [SawResponse(h) EXCEPT !.tracked[ip] = @ + 1]

\* a request was let in: while others are in flight it overlaps them; while
\* none is, a new burst begins at the visitCount stored now
SawArrival(h, ip) ==
    IF req = EmptyBag
    THEN [h EXCEPT !.ip = ip, !.base = StoredCount(store, ip),
                   !.accepted = 0, !.times = {}]
    ELSE [h EXCEPT !.overlap = TRUE]

\* the save of a repeat visit was applied and answered
SawRepeatVisit(h, ip, lastVisit) ==
    [SawTracked(h, ip) EXCEPT !.accepted = @ + 1, !.times = @ \cup {lastVisit}]

\* a request can arrive
Arrives ==
    /\ started < MaxReq
    /\ BagCardinality(req) < MaxInFlight

LegacyArrives ==
    /\ started < LegacyMaxReq
    /\ BagCardinality(req) < MaxInFlight

Init ==
    /\ IPDATA_API_KEY \in BOOLEAN
    /\ clock = 0
    /\ store = {}
    /\ started = 0
    /\ nextId = 1
    /\ req = EmptyBag
    /\ res = NoRes
    /\ hist = HistOff

(***************************************************************************)
(* GET /track of index.js.                                                 *)
(***************************************************************************)
\* lines 117-193: normalise the ip, filter bots, issue findOne
Track ==
    /\ Arrives
    /\ started' = started + 1
    /\ \E rawIp \in RawIps, userAgent \in UserAgents :
         LET ip == NormalizeIp(rawIp)
             q  == [NewReq EXCEPT !.ip = ip, !.userAgent = userAgent]
         IN  IF IsBotTable[userAgent][ip]
             THEN /\ res' = Respond(q, "BotFiltered", 200, TRUE,
                                    "Request acknowledged (bot filtered)", "none")
                  /\ req' = req
                  /\ hist' = Observed(SawResponse(hist))
             ELSE /\ req' = req (+) SetToBag({[q EXCEPT !.pc = "findOne"]})
                  /\ res' = res
                  /\ hist' = Observed(SawArrival(hist, ip))
    /\ UNCHANGED <<IPDATA_API_KEY, clock, store, nextId>>

\* line 193: the database answers findOne
DbFindOne(q) ==
    /\ q.pc = "findOne"
    /\ \E doc \in FindOne(store, q.ip) :
         req' = Replace(req, q, [q EXCEPT !.pc = "afterFind", !.found = doc, !.visitor = doc,
                                          !.looked = IF doc = NoDoc THEN "absent" ELSE "found"])
    /\ UNCHANGED <<IPDATA_API_KEY, clock, store, started, nextId, res, hist>>

\* the rate limit applied before the handler asks whether a record was found
AfterFindLimitsNewAddress(q) ==
    /\ q.pc = "afterFind"
    /\ \E checkedAt \in ClockReads(clock) :
         /\ clock' = checkedAt
         /\ IF q.visitor = NoDoc \/ RateLimitExceeded(checkedAt, q.visitor.last_visit)
            THEN /\ res' = Respond(q, "RateLimited", 429, FALSE, "Rate limit exceeded", "none")
                 /\ req' = Remove(req, q)
            ELSE /\ req' = Replace(req, q,
                              [q EXCEPT !.pc = "save",
                                        !.visitor = [q.visitor EXCEPT !.count = @ + 1,
                                                                      !.last_visit = checkedAt,
                                                                      !.user_agent = q.userAgent],
                                        !.modified = {"count", "last_visit", "user_agent"},
                                        !.saved = TRUE])
                 /\ res' = res
    /\ UNCHANGED <<IPDATA_API_KEY, store, started, nextId, hist>>

\* lines 195-228: rate limit, then increment and issue save; or check the
\* api key and issue axios.get
AfterFind(q) ==
    /\ q.pc = "afterFind"
    /\ IF q.visitor # NoDoc
       THEN \E checkedAt \in ClockReads(clock) :
              IF RateLimitExceeded(checkedAt, q.visitor.last_visit)
              THEN /\ res' = Respond(q, "RateLimited", 429, FALSE, "Rate limit exceeded", "none")
                   /\ req' = Remove(req, q)
                   /\ clock' = checkedAt
                   /\ hist' = Observed(SawResponse(hist))
              ELSE \E visitedAt \in ClockReadsAgain(checkedAt) :
                     /\ clock' = visitedAt
                     /\ hist' = hist
                     /\ req' = Replace(req, q,
                                  [q EXCEPT !.pc = "save",
                                            !.visitor = [q.visitor EXCEPT !.count = @ + 1,
                                                                          !.last_visit = visitedAt,
                                                                          !.user_agent = q.userAgent],
                                            !.modified = {"count", "last_visit"} \cup
                                                (IF q.userAgent # q.visitor.user_agent
                                                   THEN {"user_agent"} ELSE {}),
                                            !.saved = TRUE])
                     /\ res' = res
       ELSE /\ clock' = clock
            /\ IF ~IPDATA_API_KEY
               THEN /\ res' = Respond(q, "ConfigError", 500, FALSE, "API configuration error.", "none")
                    /\ req' = Remove(req, q)
                    /\ hist' = Observed(SawResponse(hist))
               ELSE /\ req' = Replace(req, q, [q EXCEPT !.pc = "axios", !.calledAxios = TRUE])
                    /\ res' = res
                    /\ hist' = hist
    /\ UNCHANGED <<IPDATA_API_KEY, store, started, nextId>>

\* lines 215-216, 261: the database applies the save, the handler answers
SaveExisting(q) ==
    /\ q.pc = "save"
    /\ store' = UpdateOne(store, q.visitor, q.modified)
    /\ res' = Respond(q, "Tracked", 200, TRUE, "Visitor tracked successfully.", "none")
    /\ req' = Remove(req, q)
    /\ hist' = Observed(SawRepeatVisit(hist, q.ip, q.visitor.last_visit))
    /\ UNCHANGED <<IPDATA_API_KEY, clock, started, nextId>>

\* AxiosReturn with the failure of axios.get swallowed: the handler goes on
\* to build the document without the enrichment data
AxiosReturnSwallowsFailure(q) ==
    /\ q.pc = "axios"
    /\ \E ipData \in IpDataResponses \cup {NoIpData} :
       \E firstNow \in ClockReads(clock) :
       \E lastNow \in ClockReadsAgain(firstNow) :
         /\ clock' = lastNow
         /\ nextId' = nextId + 1
         /\ req' = Replace(req, q,
                      [q EXCEPT !.pc = "insert", !.ipData = ipData,
                                !.newVisitor = NewVisitor(nextId, q.ip, q.userAgent,
                                                          ipData, firstNow, lastNow),
                                !.saved = TRUE])
         /\ res' = res
    /\ UNCHANGED <<IPDATA_API_KEY, store, started, hist>>

\* lines 228-257, 262-266: axios.get answers; build the document and issue
\* save, or land in the catch block
AxiosReturn(q) ==
    /\ q.pc = "axios"
    /\ \/ /\ res' = Respond(q, "Error", 500, FALSE, "An error occurred during tracking.", "axios")
          /\ req' = Remove(req, q)
          /\ hist' = Observed(SawResponse(hist))
          /\ UNCHANGED <<clock, nextId>>
       \/ \E ipData \in IpDataResponses :
          \E firstNow \in ClockReads(clock) :
          \E lastNow \in ClockReadsAgain(firstNow) :
            /\ clock' = lastNow
            /\ nextId' = nextId + 1
            /\ req' = Replace(req, q,
                         [q EXCEPT !.pc = "insert", !.ipData = ipData,
                                   !.newVisitor = NewVisitor(nextId, q.ip, q.userAgent,
                                                             ipData, firstNow, lastNow),
                                   !.saved = TRUE])
            /\ res' = res
            /\ hist' = hist
    /\ UNCHANGED <<IPDATA_API_KEY, store, started>>

\* SaveNew with the refused insert retried from the lookup
SaveNewRetriesOnDuplicate(q) ==
    /\ q.pc = "insert"
    /\ IF DuplicateKey(store, q.newVisitor)
       THEN /\ store' = store
            /\ res' = res
            /\ hist' = hist
            /\ req' = Replace(req, q, [q EXCEPT !.pc = "findOne"])
       ELSE /\ store' = store \cup {q.newVisitor}
            /\ res' = Respond(q, "Tracked", 200, TRUE, "Visitor tracked successfully.", "none")
            /\ hist' = Observed(SawTracked(hist, q.ip))
            /\ req' = Remove(req, q)
    /\ UNCHANGED <<IPDATA_API_KEY, clock, started, nextId>>

\* lines 257-266: the database inserts the document, or refuses it with a
\* duplicate-key error that lands in the catch block
SaveNew(q) ==
    /\ q.pc = "insert"
    /\ IF DuplicateKey(store, q.newVisitor)
       THEN /\ store' = store
            /\ res' = Respond(q, "Error", 500, FALSE, "An error occurred during tracking.", "E11000")
            /\ hist' = Observed(SawResponse(hist))
       ELSE /\ store' = store \cup {q.newVisitor}
            /\ res' = Respond(q, "Tracked", 200, TRUE, "Visitor tracked successfully.", "none")
            /\ hist' = Observed(SawTracked(hist, q.ip))
    /\ req' = Remove(req, q)
    /\ UNCHANGED <<IPDATA_API_KEY, clock, started, nextId>>

(***************************************************************************)
(* GET /track of part_000: no bot filter, no rate limit, no api-key check. *)
(***************************************************************************)
\* lines 96-102
LegacyTrack ==
    /\ LegacyArrives
    /\ started' = started + 1
    /\ \E rawIp \in RawIps :
         req' = req (+) SetToBag({[NewReq EXCEPT !.pc = "findOne", !.ip = NormalizeIp(rawIp)]})
    /\ UNCHANGED <<IPDATA_API_KEY, clock, store, nextId, res, hist>>

\* line 102
LegacyDbFindOne(q) ==
    /\ q.pc = "findOne"
    /\ \E doc \in FindOne(store, q.ip) :
         req' = Replace(req, q, [q EXCEPT !.pc = "afterFind", !.found = doc, !.visitor = doc,
                                          !.looked = IF doc = NoDoc THEN "absent" ELSE "found"])
    /\ UNCHANGED <<IPDATA_API_KEY, clock, store, started, nextId, res, hist>>

\* lines 104-112
LegacyAfterFind(q) ==
    /\ q.pc = "afterFind"
    /\ IF q.visitor # NoDoc
       THEN \E visitedAt \in ClockReads(clock) :
              /\ clock' = visitedAt
              /\ req' = Replace(req, q,
                           [q EXCEPT !.pc = "save",
                                     !.visitor = [q.visitor EXCEPT !.count = @ + 1,
                                                                   !.last_visit = visitedAt],
                                     !.modified = {"count", "last_visit"},
                                     !.saved = TRUE])
       ELSE /\ req' = Replace(req, q, [q EXCEPT !.pc = "axios", !.calledAxios = TRUE])
            /\ clock' = clock
    /\ UNCHANGED <<IPDATA_API_KEY, store, started, nextId, res, hist>>

\* lines 108-109, 142
LegacySaveExisting(q) ==
    /\ q.pc = "save"
    /\ store' = LegacyUpdateOne(store, q.visitor, q.modified)
    /\ res' = Respond(q, "Tracked", 200, TRUE, "Visitor tracked successfully.", "none")
    /\ req' = Remove(req, q)
    /\ UNCHANGED <<IPDATA_API_KEY, clock, started, nextId, hist>>

\* lines 112-138, 143-147
LegacyAxiosReturn(q) ==
    /\ q.pc = "axios"
    /\ \/ /\ res' = Respond(q, "Error", 500, FALSE, "An error occurred during tracking.", "axios")
          /\ req' = Remove(req, q)
          /\ UNCHANGED <<clock, nextId>>
       \/ \E ipData \in IpDataResponses :
          \E firstNow \in ClockReads(clock) :
          \E lastNow \in ClockReadsAgain(firstNow) :
            /\ IPDATA_API_KEY
            /\ clock' = lastNow
            /\ nextId' = nextId + 1
            /\ req' = Replace(req, q,
                         [q EXCEPT !.pc = "insert", !.ipData = ipData,
                                   !.newVisitor = LegacyNewVisitor(nextId, q.ip, ipData,
                                                                   firstNow, lastNow),
                                   !.saved = TRUE])
            /\ res' = res
    /\ UNCHANGED <<IPDATA_API_KEY, store, started, hist>>

\* lines 138-147
LegacySaveNew(q) ==
    /\ q.pc = "insert"
    /\ IF DuplicateKey(store, q.newVisitor)
       THEN /\ store' = store
            /\ res' = Respond(q, "Error", 500, FALSE, "An error occurred during tracking.", "E11000")
       ELSE /\ store' = store \cup {q.newVisitor}
            /\ res' = Respond(q, "Tracked", 200, TRUE, "Visitor tracked successfully.", "none")
    /\ req' = Remove(req, q)
    /\ UNCHANGED <<IPDATA_API_KEY, clock, started, nextId, hist>>

\* the build of index.js
Next ==
    \/ Track
    \/ \E q \in InFlight : DbFindOne(q)
    \/ \E q \in InFlight : AfterFind(q)
    \/ \E q \in InFlight : SaveExisting(q)
    \/ \E q \in InFlight : AxiosReturn(q)
    \/ \E q \in InFlight : SaveNew(q)

Spec == Init /\ [][Next]_vars

\* the build of index.js with the observer counting
HistoryInit ==
    /\ IPDATA_API_KEY \in BOOLEAN
    /\ clock = 0
    /\ store = {}
    /\ started = 0
    /\ nextId = 1
    /\ req = EmptyBag
    /\ res = NoRes
    /\ hist = HistOn

HistorySpec == HistoryInit /\ [][Next]_vars

\* a request in flight takes its next step: the call it awaits returns or
\* fails and the handler runs on to its next await or to its response
RequestStep ==
    \E q \in InFlight :
       DbFindOne(q) \/ AfterFind(q) \/ SaveExisting(q) \/ AxiosReturn(q) \/ SaveNew(q)

\* the same under the condition that the calls awaited do return or fail:
\* while requests are in flight, one of them takes a step in the end;
\* nothing obliges a client to send a request
FairSpec == HistorySpec /\ WF_vars(RequestStep)

\* the build of part_000
LegacyNext ==
    \/ LegacyTrack
    \/ \E q \in InFlight : LegacyDbFindOne(q)
    \/ \E q \in InFlight : LegacyAfterFind(q)
    \/ \E q \in InFlight : LegacySaveExisting(q)
    \/ \E q \in InFlight : LegacyAxiosReturn(q)
    \/ \E q \in InFlight : LegacySaveNew(q)

LegacySpec == Init /\ [][LegacyNext]_vars

(***************************************************************************)
(* isBot on its own, index.js 122-182: a request arrives with any of the   *)
(* user agents and addresses above, in any state of the store and at any   *)
(* time, and the handler calls isBot(userAgent, ip).                       *)
(***************************************************************************)
\* isBot for the inputs it is tried on, evaluated once
ClassifyTable ==
    [userAgent \in ClassifyUserAgents |-> [ip \in ClassifyIps |-> isBot(userAgent, ip)]]

ClassifyInit ==
    /\ IPDATA_API_KEY = TRUE
    /\ clock \in {0, minTimeBetweenRequests}
    /\ started = 1
    /\ nextId = 2
    /\ res = NoRes
    /\ hist = HistOff
    /\ \E userAgent \in ClassifyUserAgents, ip \in ClassifyIps :
         /\ req = SetToBag({[NewReq EXCEPT !.ip = ip, !.userAgent = userAgent]})
         /\ store \in {{}, {NewVisitor(1, ip, UaMacintosh,
                                       [city |-> "Kathmandu", asn |-> << >>], 0, 0)}}

\* line 182: isBot(userAgent, ip) returns
Classify(q) ==
    /\ q.pc = "new"
    /\ req' = Replace(req, q,
                 [q EXCEPT !.pc = IF ClassifyTable[q.userAgent][q.ip] THEN "bot" ELSE "human"])
    /\ UNCHANGED <<IPDATA_API_KEY, clock, store, started, nextId, res, hist>>

ClassifyNext == \E q \in InFlight : Classify(q)

ClassifySpec == ClassifyInit /\ [][ClassifyNext]_vars

TypeOK ==
    /\ IPDATA_API_KEY \in BOOLEAN
    /\ clock \in 0..(MaxTicks * ClockStep)
    /\ started \in Nat
    /\ nextId \in 1..(started + 1)
    /\ BagCardinality(req) <= MaxInFlight
    /\ \A q \in InFlight : q.pc \in {"findOne", "afterFind", "save", "axios", "insert"}
    /\ hist.responses \in 0..started
    /\ \A ip \in Ips : hist.tracked[ip] \in 0..hist.responses

(***************************************************************************)
(* Properties.                                                             *)
(***************************************************************************)
\* request q takes the step: one copy of its state leaves the bag
Stepped(q) == CopiesIn(q, req') < CopiesIn(q, req)

Abs(n) == IF n < 0 THEN -n ELSE n

RecordsOf(docs, ip) == {d \in docs : d.ip = ip}

\* C1: a first-request whose create meets a record that a concurrent
\* first-request has stored in the meantime is still answered Tracked, with no
\* error; afterwards the address has exactly one record, and that record's
\* visitCount is one more than before (the create fell back to the increment).
C1_DuplicateCreateFallsBackToIncrement ==
    [][\A q \in InFlight :
         (q.pc = "insert" /\ Stepped(q)) =>
            /\ res'.outcome = "Tracked"
            /\ res'.error = "none"
            /\ Cardinality(RecordsOf(store', q.ip)) = 1
            /\ \A d \in RecordsOf(store, q.ip) :
                 \E e \in RecordsOf(store', q.ip) : e.count = d.count + 1]_vars

\* C2: the store never holds two records with the same address.
C2_OneRecordPerAddress ==
    \A d \in store : \A e \in store : d.ip = e.ip => d = e

\* a second create for a stored address was attempted and refused
C2_Witness ==
    /\ res.error = "E11000"
    /\ Cardinality(RecordsOf(store, res.ip)) = 1

\* C3: in no step does the stored visitCount of a record decrease.
C3_VisitCountNeverDecreases ==
    [][\A d \in store : \A e \in store' : e._id = d._id => e.count >= d.count]_vars

\* C4: a request that found a record and reads the clock less than 5000 ms
\* after the record's lastVisit is answered 429 "Rate limit exceeded"; the
\* store is unchanged, the request has issued no save and no enrichment call,
\* and it is over.
C4_RateLimitedLeavesRecordUnchanged ==
    [][\A q \in InFlight :
         (/\ q.pc = "afterFind"
          /\ q.found # NoDoc
          /\ Stepped(q)
          /\ clock' - q.found.last_visit < minTimeBetweenRequests) =>
            /\ res'.outcome = "RateLimited"
            /\ res'.status = 429
            /\ res'.success = FALSE
            /\ store' = store
            /\ ~res'.saved
            /\ ~res'.calledAxios
            /\ req' = Remove(req, q)]_vars

\* a request was rate limited although its record had been visited once more
C4_Witness ==
    /\ res.outcome = "RateLimited"
    /\ \E d \in RecordsOf(store, res.ip) : d.count = 2

CreatesRecord(q, TimestampsOk(_, _)) ==
    /\ res'.outcome = "Tracked"
    /\ res'.status = 200
    /\ \E e \in store' :
         /\ e \notin store
         /\ store' = store \cup {e}
         /\ e.ip = q.ip
         /\ e.count = 1
         /\ e.city = q.ipData.city
         /\ TimestampsOk(e.first_visit, e.last_visit)

TimestampsEqual(first, last) == first = last

TimestampsOrdered(first, last) == first <= last

ClassifiedBot == [userAgent \in UserAgents |-> [ip \in Ips |-> isBot(userAgent, ip)]]

\* C7: a request classified as bot - the user agent "Googlebot/2.1" is - is
\* answered at once with 200, success true, as BotFiltered: it changes no
\* record, looks nothing up and calls no enrichment; no request in flight is
\* one classified as bot.
C7_BotRequestHasNoEffect ==
    [][started' = started + 1 =>
         \/ /\ req' = req
            /\ ClassifiedBot[res'.userAgent][res'.ip]
            /\ res'.outcome = "BotFiltered"
            /\ res'.status = 200
            /\ res'.success = TRUE
            /\ res'.looked = "none"
            /\ ~res'.calledAxios
            /\ ~res'.saved
            /\ store' = store
         \/ \E n \in BagToSet(req') :
              /\ req' = req (+) SetToBag({n})
              /\ ~ClassifiedBot[n.userAgent][n.ip]
              /\ n.userAgent # UaGooglebot
              /\ n.pc = "findOne"]_vars

\* Googlebot asked for an address that has a record, and was filtered
C7_Witness ==
    /\ res.outcome = "BotFiltered"
    /\ res.userAgent = UaGooglebot
    /\ RecordsOf(store, res.ip) # {}

\* C8: when a repeat visit is counted, the time of that visit and the time of
\* the previously counted visit of the address (the stored lastVisit) are at
\* least 5000 ms apart.
C8_CountedVisitsFiveSecondsApart ==
    [][\A q \in InFlight :
         (q.pc = "save" /\ Stepped(q)) =>
            \A d \in store :
               d._id = q.visitor._id =>
                  Abs(q.visitor.last_visit - d.last_visit) >= minTimeBetweenRequests]_vars

\* C9: every stored record has lastVisit >= firstVisit.
C9_LastVisitNotBeforeFirstVisit ==
    \A d \in store : d.last_visit >= d.first_visit

\* a record whose two creation timestamps differ has been visited again
C9_Witness ==
    /\ res.outcome = "Tracked"
    /\ res.looked = "found"
    /\ \E d \in store : d.count > 1 /\ d.last_visit > d.first_visit

\* C10: the save of an accepted repeat visit leaves the address, firstVisit
\* and the enrichment fields of every record as they were and changes no
\* other record; a request whose lookup found a record never calls the
\* enrichment client.
C10_RepeatVisitKeepsCreationFields ==
    [][/\ \A q \in InFlight :
            (q.pc = "save" /\ Stepped(q)) =>
               /\ Cardinality(store') = Cardinality(store)
               /\ \A d \in store :
                    \E e \in store' :
                       /\ e._id = d._id
                       /\ e.ip = d.ip
                       /\ e.first_visit = d.first_visit
                       /\ e.city = d.city
                       /\ e.asn = d.asn
                       /\ (d._id # q.found._id => e = d)
       /\ \A n \in BagToSet(req') :
            n.looked = "found" => (~n.calledAxios /\ n.pc \in {"afterFind", "save"})
       /\ res'.looked = "found" => ~res'.calledAxios]_vars

\* a repeat visit with another user agent was saved
C10_Witness ==
    /\ res.outcome = "Tracked"
    /\ res.looked = "found"
    /\ \E d \in store : d.count = 2 /\ d.user_agent = UaLinux /\ d.city = "Kathmandu"

\* C11: every response follows the table: Tracked and BotFiltered are
\* 200 {success: true, message: "Visitor tracked successfully."}; RateLimited
\* is 429 {success: false, message: "Rate limit exceeded"}; ConfigError is
\* 500 {success: false, message: "API configuration error."}; any other
\* failure is 500 {success: false, message: "An error occurred during
\* tracking."}.
C11_ResponseTable ==
    /\ res.outcome \in {"Tracked", "BotFiltered"} =>
          /\ res.status = 200
          /\ res.success = TRUE
          /\ res.message = "Visitor tracked successfully."
    /\ res.outcome = "RateLimited" =>
          /\ res.status = 429
          /\ res.success = FALSE
          /\ res.message = "Rate limit exceeded"
    /\ res.outcome = "ConfigError" =>
          /\ res.status = 500
          /\ res.success = FALSE
          /\ res.message = "API configuration error."
    /\ res.outcome = "Error" =>
          /\ res.status = 500
          /\ res.success = FALSE
          /\ res.message = "An error occurred during tracking."

\* C12: a request whose lookup found no record is never answered
\* RateLimited, whatever other requests for the address are in flight or have
\* stored in the meantime: every 429 goes to a request whose lookup returned
\* a record of its address.
C12_RateLimitedOnlyAfterFoundRecord ==
    [][/\ \A q \in InFlight :
            (q.looked = "absent" /\ Stepped(q)) =>
               (res' = res \/ res'.outcome # "RateLimited")
       /\ res'.outcome = "RateLimited" =>
            /\ res'.looked = "found"
            /\ res'.status = 429
            /\ \E d \in RecordsOf(store, res'.ip) : TRUE]_vars

\* a first-request was answered while a concurrent first-request had stored
\* the record of the address a moment before: a lookup now would be limited
C12_Witness ==
    /\ res.looked = "absent"
    /\ res.outcome = "Error"
    /\ \E d \in RecordsOf(store, res.ip) :
         RateLimitExceeded(clock, d.last_visit)

\* C13: a request whose lookup found no record, with the api key missing, is
\* answered ConfigError (500) without calling the enrichment client; with
\* the key present it calls the client, and when the call fails it is
\* answered with the generic 500.  In both cases the store is unchanged, the
\* request has issued no save, and it is over: nothing of it stays in flight
\* and no request is started in its place.
C13_NoRecordOnConfigOrUpstreamError ==
    [][\A q \in InFlight :
         /\ (q.pc = "afterFind" /\ q.found = NoDoc /\ Stepped(q)) =>
               IF ~IPDATA_API_KEY
               THEN /\ res'.outcome = "ConfigError"
                    /\ res'.status = 500
                    /\ res'.message = "API configuration error."
                    /\ ~res'.calledAxios
                    /\ ~res'.saved
                    /\ store' = store
                    /\ req' = Remove(req, q)
                    /\ started' = started
               ELSE /\ res' = res
                    /\ store' = store
                    /\ \E n \in BagToSet(req') :
                         /\ req' = Replace(req, q, n)
                         /\ n.pc = "axios"
                         /\ n.calledAxios
         /\ (q.pc = "axios" /\ Stepped(q)) =>
               /\ IPDATA_API_KEY
               /\ store' = store
               /\ \/ /\ res'.outcome = "Error"
                     /\ res'.error = "axios"
                     /\ res'.status = 500
                     /\ res'.message = "An error occurred during tracking."
                     /\ ~res'.saved
                     /\ req' = Remove(req, q)
                     /\ started' = started
                     /\ nextId' = nextId
                  \/ /\ res' = res
                     /\ \E n \in BagToSet(req') :
                          /\ req' = Replace(req, q, n)
                          /\ n.pc = "insert"
                          /\ n.ipData \in IpDataResponses]_vars

\* the enrichment call of a first-request failed: generic 500, no record
C13_Witness ==
    /\ res.outcome = "Error"
    /\ res.error = "axios"
    /\ res.calledAxios
    /\ IPDATA_API_KEY
    /\ RecordsOf(store, res.ip) = {}

\* the rules of isBot, one by one
EmptyUserAgent(userAgent) == Len(userAgent) = 0

MatchesBotPattern(userAgent) ==
    \E k \in DOMAIN botPatterns :
       \E i \in 1..Len(userAgent) :
          /\ i + Len(botPatterns[k]) - 1 <= Len(userAgent)
          /\ \A j \in 1..Len(botPatterns[k]) :
                toLowerCase(userAgent[i + j - 1]) = botPatterns[k][j]

SuspiciousLength(userAgent) == Len(userAgent) < 10 \/ Len(userAgent) > 500

InProviderRange(ip) ==
    \E k \in DOMAIN suspiciousIPRanges :
       /\ Len(suspiciousIPRanges[k]) <= Len(ip)
       /\ \A j \in 1..Len(suspiciousIPRanges[k]) : ip[j] = suspiciousIPRanges[k][j]

MatchesBotPatternTable ==
    [userAgent \in ClassifyUserAgents |-> MatchesBotPattern(userAgent)]

InProviderRangeTable == [ip \in ClassifyIps |-> InProviderRange(ip)]

\* the requests isBot has answered for
Classified == {q \in InFlight : q.pc \in {"bot", "human"}}

\* C14: isBot returns true for every user agent shorter than 10 or longer
\* than 500 characters (the empty one included) and for every user agent
\* that contains a listed pattern, whatever the address; a user agent of
\* exactly 10 or exactly 500 characters is not a bot by its length: without a
\* pattern, and from an address outside the listed ranges, it is human.
C14_ShortLongOrPatternIsBot ==
    \A q \in Classified :
       /\ SuspiciousLength(q.userAgent) => q.pc = "bot"
       /\ MatchesBotPatternTable[q.userAgent] => q.pc = "bot"
       /\ (/\ Len(q.userAgent) \in {10, 500}
           /\ ~MatchesBotPatternTable[q.userAgent]
           /\ ~InProviderRangeTable[q.ip]) => q.pc = "human"

\* a user agent of exactly 500 characters was classified human
C14_Witness ==
    \E q \in Classified :
       /\ Len(q.userAgent) = 500
       /\ q.pc = "human"
       /\ store # {}

\* the rules with the length rule ahead of the pattern rule: empty, length,
\* pattern, address
isBotLengthFirst(userAgent, ip) ==
    IF EmptyUserAgent(userAgent) THEN TRUE
    ELSE IF SuspiciousLength(userAgent) THEN TRUE
    ELSE IF MatchesBotPatternTable[userAgent] THEN TRUE
    ELSE IF InProviderRangeTable[ip] THEN TRUE
    ELSE FALSE

\* C15: isBot returns false exactly when all four rules fail (user agent not
\* empty, no pattern in it, length in 10..500, address in no listed range);
\* evaluating the length rule before the pattern rule gives the same result;
\* the result is the same in every state of the store and at every time.
C15_HumanIffAllRulesFail ==
    \A q \in Classified :
       /\ q.pc = "human" <=>
             /\ ~EmptyUserAgent(q.userAgent)
             /\ ~MatchesBotPatternTable[q.userAgent]
             /\ Len(q.userAgent) >= 10
             /\ Len(q.userAgent) <= 500
             /\ ~InProviderRangeTable[q.ip]
       /\ q.pc = "bot" <=> isBotLengthFirst(q.userAgent, q.ip)

\* a browser-like user agent from an address in a listed range was
\* classified bot by the address alone, with a record stored and time passed
C15_Witness ==
    \E q \in Classified :
       /\ q.pc = "bot"
       /\ q.userAgent = UaMacintosh
       /\ InProviderRangeTable[q.ip]
       /\ store # {}
       /\ clock = minTimeBetweenRequests

\* C16: when a burst of requests to an address that had a record is over
\* (none in flight any more) and k >= 1 of them were accepted repeat visits,
\* the address still has exactly one record, its visitCount lies between the
\* count before the burst + 1 and that count + k, and its lastVisit is the
\* time one of those k requests wrote.
C16_BurstLeavesValidRecord ==
    (req = EmptyBag /\ hist.base >= 1 /\ hist.accepted >= 1) =>
       /\ Cardinality(RecordsOf(store, hist.ip)) = 1
       /\ \A d \in RecordsOf(store, hist.ip) :
            /\ d.count >= hist.base + 1
            /\ d.count <= hist.base + hist.accepted
            /\ d.last_visit \in hist.times
            /\ d.first_visit <= d.last_visit

\* two repeat visits that overlapped were both accepted and one increment
\* was lost
C16_Witness ==
    /\ req = EmptyBag
    /\ hist.base = 1
    /\ hist.accepted = 2
    /\ hist.overlap
    /\ \E d \in RecordsOf(store, hist.ip) : d.count = 2

\* C17: when the save of an accepted repeat visit is applied, the stored
\* userAgent of the address is the user agent of that request; a step that
\* answers RateLimited or BotFiltered leaves every stored userAgent as it was.
C17_StoredUserAgentIsThatOfTheVisit ==
    [][/\ \A q \in InFlight :
            (q.pc = "save" /\ Stepped(q)) =>
               \A e \in RecordsOf(store', q.ip) : e.user_agent = q.userAgent
       /\ (res' # res /\ res'.outcome \in {"RateLimited", "BotFiltered"}) =>
            \A d \in store : \E e \in store' :
               e._id = d._id /\ e.user_agent = d.user_agent]_vars

\* C18: in no step does the stored lastVisit of a record move backwards.
C18_LastVisitNeverMovesBackwards ==
    [][\A d \in store : \A e \in store' :
          e._id = d._id => e.last_visit >= d.last_visit]_vars

\* C19: whenever no request is in flight, the visitCount stored for an
\* address is at most the number of requests from it that were answered
\* Tracked, and equal to it if no request arrived while another was in
\* flight; a response other than Tracked (BotFiltered, RateLimited,
\* ConfigError, the generic 500) comes with no change of the store.
C19_VisitCountAtMostTrackedResponses ==
    [][/\ req' = EmptyBag =>
            \A ip \in Ips :
               /\ StoredCount(store', ip) <= hist'.tracked[ip]
               /\ ~hist'.overlap => StoredCount(store', ip) = hist'.tracked[ip]
       /\ (/\ hist'.responses = hist.responses + 1
           /\ hist'.tracked = hist.tracked) =>
             /\ store' = store
             /\ res'.outcome \in {"BotFiltered", "RateLimited", "ConfigError", "Error"}
       /\ hist'.tracked # hist.tracked =>
             /\ res'.outcome = "Tracked"
             /\ hist'.responses = hist.responses + 1]_vars

\* three requests were answered Tracked, two of them overlapped, and the
\* record counts two visits
C19_Witness ==
    /\ req = EmptyBag
    /\ hist.overlap
    /\ \E ip \in Ips : hist.tracked[ip] = 3 /\ StoredCount(store, ip) = 2

\* how far a request is from its response: the awaits still ahead of it
StepsLeft(q) ==
    CASE q.pc = "findOne" -> 4
      [] q.pc = "afterFind" -> 3
      [] q.pc = "axios" -> 2
      [] q.pc = "save" -> 1
      [] q.pc = "insert" -> 1
      [] OTHER -> 0

\* C20: every request that has arrived is answered in the end (again and
\* again no request is in flight); at every moment the responses sent are
\* as many as the requests that are no longer in flight, one each; a request
\* that takes a step either is answered and gone - nothing of it stays in
\* flight, whatever the outcome - or moves on to a later await without a
\* response; the store changes and the enrichment client is called only in a
\* step of a request that is still unanswered.
C20_EveryRequestAnsweredOnce ==
    /\ []<>(req = EmptyBag)
    /\ [](hist.responses + BagCardinality(req) = started)
    /\ [][/\ \A q \in InFlight :
               Stepped(q) =>
                  \/ /\ req' = Remove(req, q)
                     /\ hist'.responses = hist.responses + 1
                     /\ res'.outcome \in {"Tracked", "RateLimited", "ConfigError", "Error"}
                     /\ started' = started
                  \/ /\ \E n \in BagToSet(req') :
                          /\ req' = Replace(req, q, n)
                          /\ StepsLeft(n) < StepsLeft(q)
                     /\ hist'.responses = hist.responses
                     /\ res' = res
          /\ (store' # store \/ nextId' # nextId) =>
                \E q \in InFlight : Stepped(q)
          /\ started' # started =>
                /\ started' = started + 1
                /\ store' = store
                /\ hist'.responses + BagCardinality(req') = hist.responses + BagCardinality(req) + 1]_vars

\* all requests of a run have been answered, the last one by the catch block
C20_Witness ==
    /\ req = EmptyBag
    /\ started = MaxReq
    /\ hist.responses = MaxReq
    /\ res.outcome = "Error"
    /\ store # {}
=============================================================================
